---- MODULE Spec2Model ----
(***************************************************************************)
(* Startup funding dashboards (SIAapp.py and app1.py): the dataset loader  *)
(* with its per-path cache, the numeric normaliser, and the derived views. *)
(*                                                                         *)
(* Numbers are fixed point: a value v stands for v / Scale, so that a      *)
(* fractional cell (2.5) exists and integer conversion has something to    *)
(* truncate.  A raw CSV cell and a DataFrame value are records of one      *)
(* shape [k, v, s]: k is the kind, v the number (0 when there is none),    *)
(* s the text ("" when there is none).                                     *)
(***************************************************************************)
EXTENDS Integers, Sequences, FiniteSets, TLC

\* ------------------------------------------------------------------ bounds
MaxRows == 3
MaxRawRows == 1
MaxN == 2
MaxParses == 2
Scale == 2

\* ------------------------------------------------------- program constants
DEFAULT_DATA_PATH == "cleaned_investments!.csv"
ALTERNATE_DATA_PATH == "./.devcontainer/cleaned_investments!.csv"
CLEANED_DATA_PATH == "cleaned_investments.csv"
TOP_N == 10
TOP_N_DEFAULT == 10
SliderMin == 5
SliderMaxSIA == 20
SliderMaxApp1 == 30
YearFloor == 1980

possible_paths == <<DEFAULT_DATA_PATH, ALTERNATE_DATA_PATH>>

Apps == {"SIAapp", "app1"}

CandidatePaths(a) == IF a = "SIAapp" THEN possible_paths ELSE <<CLEANED_DATA_PATH>>

AllPaths == {DEFAULT_DATA_PATH, ALTERNATE_DATA_PATH, CLEANED_DATA_PATH}

\* The columns the programs read.
StringCols == {"name", "country", "primary_category", "status"}

\* numeric_cols of load_data: the columns coerced, with their target type.
numeric_cols ==
  [first_funding_year |-> "int", funding_total_usd |-> "float", funding_rounds |-> "int"]

NumericColNames == DOMAIN numeric_cols

Columns == StringCols \cup NumericColNames

\* ------------------------------------------------------ cells and values
\* Raw CSV cells.
EmptyCell == [k |-> "empty", v |-> 0, s |-> ""]
TextCell(t) == [k |-> "text", v |-> 0, s |-> t]
NumCell(n) == [k |-> "num", v |-> n, s |-> ""]
InfCell == [k |-> "inf", v |-> 0, s |-> ""]
Whole(i) == NumCell(i * Scale)
\* i + 1/Scale: a cell with a fractional part.
Frac(i) == NumCell(i * Scale + 1)

\* DataFrame values.
NaN == [k |-> "nan", v |-> 0, s |-> ""]
Str(t) == [k |-> "str", v |-> 0, s |-> t]
Num(n) == [k |-> "num", v |-> n, s |-> ""]
Inf == [k |-> "inf", v |-> 0, s |-> ""]

\* The texts pd.read_csv reads as NaN with its default arguments, besides
\* the empty cell.
NaValues ==
  {"#N/A", "#N/A N/A", "#NA", "-1.#IND", "-1.#QNAN", "-NaN", "-nan", "1.#IND",
   "1.#QNAN", "<NA>", "N/A", "NA", "NULL", "NaN", "None", "n/a", "nan", "null"}

\* pd.read_csv on one cell: an empty cell and a text of NaValues are NaN, a
\* number (or "inf") is parsed, any other text stays a string.
ParseCell(c) ==
  CASE c.k = "empty" -> NaN
    [] c.k = "text" -> IF c.s \in NaValues THEN NaN ELSE Str(c.s)
    [] c.k = "num" -> Num(c.v)
    [] OTHER -> Inf

\* pd.to_numeric(errors='coerce') on one value: what is no number is NaN.
ToNumeric(x) == IF x.k \in {"num", "inf"} THEN x ELSE NaN

\* .fillna(0) on one value.
FillNa(x) == IF x.k = "nan" THEN Num(0) ELSE x

\* Truncation toward zero of a fixed-point number to a whole number.
TruncTowardZero(n) ==
  IF n >= 0 THEN (n \div Scale) * Scale ELSE 0 - (((0 - n) \div Scale) * Scale)

\* .astype(dtype) on one finite value: 'int' truncates toward zero, 'float'
\* keeps the value.
AsType(x, dtype) ==
  IF dtype = "int" /\ x.k = "num" THEN Num(TruncTowardZero(x.v)) ELSE x

\* pd.to_numeric(col, errors='coerce').fillna(0).astype(dtype) on one value.
Coerce(x, dtype) == AsType(FillNa(ToNumeric(x)), dtype)

\* .astype('int') raises on a column holding a non-finite value.
AsTypeRaises(x, dtype) == dtype = "int" /\ FillNa(ToNumeric(x)).k = "inf"

\* --------------------------------------------------- files and DataFrames
Absent == [kind |-> "absent", cols |-> {}, rows |-> <<>>]
\* A file that exists and that pd.read_csv cannot parse.
Garbled == [kind |-> "garbled", cols |-> {}, rows |-> <<>>]
Table(cols, rows) == [kind |-> "table", cols |-> cols, rows |-> rows]

NoneVal == [kind |-> "none", cols |-> {}, rows |-> <<>>]
\* load_data left by an exception (no value returned).
Raised == [kind |-> "raised", cols |-> {}, rows |-> <<>>]
\* No cache entry.
NoEntry == [kind |-> "noentry", cols |-> {}, rows |-> <<>>]
Frame(cols, rows) == [kind |-> "df", cols |-> cols, rows |-> rows]

\* os.path.exists(path)
Exists(files, p) == files[p].kind # "absent"

\* df = pd.read_csv(path), for a file that parses.
ReadCsv(file) ==
  Frame(file.cols,
        [i \in 1..Len(file.rows) |-> [c \in file.cols |-> ParseCell(file.rows[i][c])]])

\* pd.read_csv(path) raises: no such file, or no table in it.
ReadCsvRaises(file) == file.kind # "table"

\* The loop over numeric_cols of SIAapp.load_data: a configured column that
\* is present is coerced, one that is absent is skipped.
NormalizeSIA(df) ==
  Frame(df.cols,
        [i \in 1..Len(df.rows) |->
           [c \in df.cols |->
              IF c \in NumericColNames
                THEN Coerce(df.rows[i][c], numeric_cols[c])
                ELSE df.rows[i][c]]])

NormalizeRaisesSIA(df) ==
  \E c \in df.cols \cap NumericColNames : \E i \in 1..Len(df.rows) :
    AsTypeRaises(df.rows[i][c], numeric_cols[c])

\* SIAapp.load_data(path): any exception is caught and None returned.
SIA_load_data(file) ==
  IF ReadCsvRaises(file) THEN NoneVal
  ELSE IF NormalizeRaisesSIA(ReadCsv(file)) THEN NoneVal
  ELSE NormalizeSIA(ReadCsv(file))

\* app1.load_data: df[col] = to_numeric(df.get(col, pd.Series()), ...).
\* first_funding_year and funding_rounds are cast to int, funding_total_usd
\* is not cast.  A column the file lacks is assigned from an empty Series:
\* the column is created and every row of it is NaN.
App1ColType(c) == IF c = "funding_total_usd" THEN "float" ELSE "int"

NormalizeApp1(df) ==
  Frame(df.cols \cup NumericColNames,
        [i \in 1..Len(df.rows) |->
           [c \in df.cols \cup NumericColNames |->
              IF c \in NumericColNames
                THEN IF c \in df.cols
                       THEN Coerce(df.rows[i][c], App1ColType(c))
                       ELSE NaN
                ELSE df.rows[i][c]]])

NormalizeRaisesApp1(df) ==
  \E c \in df.cols \cap NumericColNames : \E i \in 1..Len(df.rows) :
    AsTypeRaises(df.rows[i][c], App1ColType(c))

\* app1.load_data(path): nothing is caught.
App1_load_data(file) ==
  IF ReadCsvRaises(file) THEN Raised
  ELSE IF NormalizeRaisesApp1(ReadCsv(file)) THEN Raised
  ELSE NormalizeApp1(ReadCsv(file))

load_data(a, file) == IF a = "SIAapp" THEN SIA_load_data(file) ELSE App1_load_data(file)

\* df.empty: no rows (or no columns).
IsEmpty(df) == Len(df.rows) = 0 \/ df.cols = {}

\* ------------------------------------------------------------ Series
\* A Series is a sequence of [key, val] entries, both DataFrame values.
Entry(key, val) == [key |-> key, val |-> val]

\* The strings of the model in Python's string order (by code point).
LexOrder ==
  <<"Acme", "Beta", "CAN", "DEU", "Delta", "Epsilon", "FRA", "GBR", "Gamma", "IND", "Tech",
    "USA", "Zeta", "closed", "operating">>

Rank(t) == CHOOSE i \in 1..Len(LexOrder) : LexOrder[i] = t

\* a < b on group keys: strings by string order, numbers by value.
KeyLess(a, b) ==
  IF a.k = "str" /\ b.k = "str" THEN Rank(a.s) < Rank(b.s) ELSE a.v < b.v

\* a < b on numbers, inf above every finite number.
ValLess(a, b) == a.k = "num" /\ (b.k = "inf" \/ (b.k = "num" /\ a.v < b.v))

\* x > c for a whole number c; a comparison with NaN is False.
Gt(x, c) == (x.k = "num" /\ x.v > c * Scale) \/ x.k = "inf"

RECURSIVE SortedKeys(_)
\* The keys of a groupby, ascending (groupby sorts its keys).
SortedKeys(S) ==
  IF S = {} THEN <<>>
  ELSE LET m == CHOOSE x \in S : \A y \in S : ~KeyLess(y, x)
       IN <<m>> \o SortedKeys(S \ {m})

RECURSIVE FiniteSum(_, _, _)
\* The sum of the finite numbers of column col over the rows I; NaN is
\* skipped (skipna).
FiniteSum(rows, col, I) ==
  IF I = {} THEN 0
  ELSE LET i == CHOOSE x \in I : \A y \in I : x <= y
       IN (IF rows[i][col].k = "num" THEN rows[i][col].v ELSE 0)
            + FiniteSum(rows, col, I \ {i})

\* Series.sum() of column col over the rows I.
ColSum(rows, col, I) ==
  IF \E i \in I : rows[i][col].k = "inf" THEN Inf ELSE Num(FiniteSum(rows, col, I))

\* The rows of a group; a row whose key is NaN is in no group (dropna).
GroupRows(rows, key, g) == {i \in 1..Len(rows) : rows[i][key] = g}

GroupKeys(rows, key) == {rows[i][key] : i \in 1..Len(rows)} \ {NaN}

\* df.groupby(key)[col].sum()
GroupBySum(df, key, col) ==
  LET ks == SortedKeys(GroupKeys(df.rows, key))
  IN [j \in 1..Len(ks) |->
        Entry(ks[j], ColSum(df.rows, col, GroupRows(df.rows, key, ks[j])))]

\* df.groupby(key)[col].nunique(): the distinct values per group, NaN not
\* counted.
GroupByNUnique(df, key, col) ==
  LET ks == SortedKeys(GroupKeys(df.rows, key))
  IN [j \in 1..Len(ks) |->
        Entry(ks[j],
              Num(Scale * Cardinality({df.rows[i][col] :
                                         i \in GroupRows(df.rows, key, ks[j])} \ {NaN})))]

RemoveAt(s, i) == SubSeq(s, 1, i - 1) \o SubSeq(s, i + 1, Len(s))

\* The first entry no other entry exceeds.
FirstMaxIdx(s) ==
  CHOOSE i \in 1..Len(s) :
    /\ \A j \in 1..Len(s) : ~ValLess(s[i].val, s[j].val)
    /\ \A j \in 1..(i - 1) : ValLess(s[j].val, s[i].val)

\* The first entry that exceeds no other entry.
FirstMinIdx(s) ==
  CHOOSE i \in 1..Len(s) :
    /\ \A j \in 1..Len(s) : ~ValLess(s[j].val, s[i].val)
    /\ \A j \in 1..(i - 1) : ValLess(s[i].val, s[j].val)

\* .head(n) in place of .nlargest(n): the first n groups in key order.
HeadN(s, n) == SubSeq(s, 1, IF n < Len(s) THEN n ELSE Len(s))

RECURSIVE NLargest(_, _)
\* Series.nlargest(n): the n largest, descending, ties in the order they
\* have in the Series (keep='first').
NLargest(s, n) ==
  IF n <= 0 \/ Len(s) = 0 THEN <<>>
  ELSE LET i == FirstMaxIdx(s) IN <<s[i]>> \o NLargest(RemoveAt(s, i), n - 1)

RECURSIVE SortValues(_)
\* Series.sort_values(): ascending.
SortValues(s) ==
  IF Len(s) = 0 THEN <<>>
  ELSE LET i == FirstMinIdx(s) IN <<s[i]>> \o SortValues(RemoveAt(s, i))

RECURSIVE FirstSeen(_, _)
\* The distinct non-NaN values of column col, in the order they first occur.
FirstSeen(rows, col) ==
  IF Len(rows) = 0 THEN <<>>
  ELSE LET init == FirstSeen(SubSeq(rows, 1, Len(rows) - 1), col)
           x == rows[Len(rows)][col]
       IN IF x = NaN \/ (\E j \in 1..Len(init) : init[j] = x) THEN init
          ELSE Append(init, x)

\* df[col].value_counts(): occurrences per distinct value, NaN dropped,
\* the most frequent first.
ValueCounts(df, col) ==
  LET ks == FirstSeen(df.rows, col)
      counts == [j \in 1..Len(ks) |->
                   Entry(ks[j], Num(Scale * Cardinality(GroupRows(df.rows, col, ks[j]))))]
  IN NLargest(counts, Len(counts))

\* ------------------------------------------------------------ Pearson
RECURSIVE SumSeq(_)
SumSeq(s) == IF Len(s) = 0 THEN 0 ELSE s[1] + SumSeq(Tail(s))

Sign(z) == IF z > 0 THEN 1 ELSE IF z < 0 THEN 0 - 1 ELSE 0

\* Series.corr of two columns over the same rows.  The coefficient is NaN
\* with fewer than two points, with a non-finite value, or when one side has
\* no variance; otherwise the model keeps its sign (v) only.
Corr(xs, ys) ==
  LET n == Len(xs)
      X == [i \in 1..n |-> xs[i].v]
      Y == [i \in 1..n |-> ys[i].v]
      sx == SumSeq(X)
      sy == SumSeq(Y)
      varX == n * SumSeq([i \in 1..n |-> X[i] * X[i]]) - sx * sx
      varY == n * SumSeq([i \in 1..n |-> Y[i] * Y[i]]) - sy * sy
      cov == n * SumSeq([i \in 1..n |-> X[i] * Y[i]]) - sx * sy
  IN IF n < 2 THEN NaN
     ELSE IF \E i \in 1..n : xs[i].k # "num" \/ ys[i].k # "num" THEN NaN
     ELSE IF varX = 0 \/ varY = 0 THEN NaN
     ELSE [k |-> "coef", v |-> Sign(cov), s |-> ""]

\* -------------------------------------------------------------- views
\* What one view leaves: kind says what happened, items is the Series it
\* computed, plotted the Series in the order handed to the chart, corr the
\* coefficient put in a chart title.
Sections ==
  <<"Overview", "Top Funded Companies", "Funding by Country", "Active Markets",
    "Funding Trends", "Startup Status", "Rounds vs Funding", "Category Boxplot",
    "Correlation Heatmap">>

SectionSet == {Sections[i] : i \in 1..Len(Sections)}

Result(kind, items, plotted, corr) ==
  [kind |-> kind, items |-> items, plotted |-> plotted, corr |-> corr]

NotRun == Result("notrun", <<>>, <<>>, NaN)
\* df[col] on a column the DataFrame lacks.
KeyError == Result("keyerror", <<>>, <<>>, NaN)
\* st.warning in place of a chart.
Warning == Result("warning", <<>>, <<>>, NaN)
\* A chart whose data no claim reads (box plot, heat map).
Chart == Result("chart", <<>>, <<>>, NaN)
Series(items, plotted) == Result("series", items, plotted, NaN)
\* .plot(kind='barh') on a Series of no entry.
IndexError == Result("indexerror", <<>>, <<>>, NaN)

\* The view raised.
Raises(v) == v.kind \in {"keyerror", "indexerror"}

\* data.plot(kind='barh', ...): a Series of no entry cannot be drawn, the
\* bar positions are indexed at 0 and the call raises.
PlotBarh(items, plotted) ==
  IF Len(plotted) = 0 THEN IndexError ELSE Series(items, plotted)

AllRows(df) == 1..Len(df.rows)

\* show_overview: total = df['funding_total_usd'].sum()
show_overview(df) ==
  IF "funding_total_usd" \notin df.cols THEN KeyError
  ELSE LET t == <<Entry(Str("total"), ColSum(df.rows, "funding_total_usd", AllRows(df)))>>
       IN Series(t, t)

\* df.groupby(key)['funding_total_usd'].sum().nlargest(n).sort_values()
TopBySumSIA(df, key, n) ==
  IF {key, "funding_total_usd"} \subseteq df.cols
    THEN LET top == SortValues(NLargest(GroupBySum(df, key, "funding_total_usd"), n))
         IN PlotBarh(top, top)
    ELSE KeyError

show_top_companies(df, n) == TopBySumSIA(df, "name", n)

show_funding_by_country(df, n) == TopBySumSIA(df, "country", n)

\* df.groupby('primary_category')['name'].nunique().nlargest(n).sort_values()
show_active_markets(df, n) ==
  IF {"primary_category", "name"} \subseteq df.cols
    THEN LET m == SortValues(NLargest(GroupByNUnique(df, "primary_category", "name"), n))
         IN PlotBarh(m, m)
    ELSE KeyError

\* The floor test written >= 1980.
FromFloor(df) ==
  LET Recent(r) == r["first_funding_year"].k = "num"
                     /\ r["first_funding_year"].v >= YearFloor * Scale
  IN Frame(df.cols, SelectSeq(df.rows, Recent))

\* df[df['first_funding_year'] > 1980]
AfterFloor(df) ==
  LET Recent(r) == Gt(r["first_funding_year"], YearFloor)
  IN Frame(df.cols, SelectSeq(df.rows, Recent))

\* df[df['first_funding_year'] > 1980].groupby('first_funding_year')
\*   ['funding_total_usd'].sum()
FundingTrend(df) ==
  IF {"first_funding_year", "funding_total_usd"} \subseteq df.cols
    THEN LET data == GroupBySum(AfterFloor(df), "first_funding_year", "funding_total_usd")
         IN Series(data, data)
    ELSE KeyError

show_funding_trends(df) == FundingTrend(df)

\* The column tested by its content: a column with no value in it is taken
\* for a missing one.
StatusByContent(df) ==
  IF "status" \in df.cols /\ (\E i \in 1..Len(df.rows) : df.rows[i]["status"] # NaN)
    THEN LET counts == ValueCounts(df, "status") IN Series(counts, counts)
    ELSE Warning

\* if 'status' in df.columns: counts = df['status'].value_counts() ... else
\* st.warning
StatusDistribution(df) ==
  IF "status" \in df.cols
    THEN LET counts == ValueCounts(df, "status") IN Series(counts, counts)
    ELSE Warning

show_status_distribution(df) == StatusDistribution(df)

\* df[(df['funding_rounds'] > 0) & (df['funding_total_usd'] > 0)]
FundedRows(df) ==
  LET Funded(r) == Gt(r["funding_rounds"], 0) /\ Gt(r["funding_total_usd"], 0)
  IN SelectSeq(df.rows, Funded)

\* The scatter points (rounds, funding) and the coefficient of the title.
CorrChart(rows) ==
  LET pts == [i \in 1..Len(rows) |->
                Entry(rows[i]["funding_rounds"], rows[i]["funding_total_usd"])]
  IN Result("corr", pts, pts,
            Corr([i \in 1..Len(rows) |-> rows[i]["funding_rounds"]],
                 [i \in 1..Len(rows) |-> rows[i]["funding_total_usd"]]))

\* show_funding_vs_rounds: the coefficient is computed and put in the title
\* whatever the number of points.
show_funding_vs_rounds(df) ==
  IF {"funding_rounds", "funding_total_usd"} \subseteq df.cols
    THEN CorrChart(FundedRows(df))
    ELSE KeyError

\* show_category_boxplot reads primary_category and funding_total_usd.
show_category_boxplot(df) ==
  IF {"primary_category", "funding_total_usd"} \subseteq df.cols THEN Chart ELSE KeyError

\* show_correlation_heatmap reads the three numeric columns.
show_correlation_heatmap(df) ==
  IF NumericColNames \subseteq df.cols THEN Chart ELSE KeyError

\* The if/elif chain of SIAapp.main.
SIAView(choice, df, n) ==
  CASE choice = "Overview" -> show_overview(df)
    [] choice = "Top Funded Companies" -> show_top_companies(df, n)
    [] choice = "Funding by Country" -> show_funding_by_country(df, n)
    [] choice = "Active Markets" -> show_active_markets(df, n)
    [] choice = "Funding Trends" -> show_funding_trends(df)
    [] choice = "Startup Status" -> show_status_distribution(df)
    [] choice = "Rounds vs Funding" -> show_funding_vs_rounds(df)
    [] choice = "Category Boxplot" -> show_category_boxplot(df)
    [] OTHER -> show_correlation_heatmap(df)

\* app1.main, lines 39-46: total funding, unique startups, and the average,
\* kept as its two operands: the total and the number of values that are
\* not NaN (.mean() skips NaN).
App1Overview(df) ==
  IF "name" \notin df.cols THEN KeyError
  ELSE LET t == <<Entry(Str("total"), ColSum(df.rows, "funding_total_usd", AllRows(df))),
                  Entry(Str("unique"),
                        Num(Scale * Cardinality({df.rows[i]["name"] : i \in AllRows(df)}
                                                  \ {NaN}))),
                  Entry(Str("count"),
                        Num(Scale * Cardinality({i \in AllRows(df) :
                                                   df.rows[i]["funding_total_usd"] # NaN})))>>
       IN Series(t, t)

\* df.groupby(key)['funding_total_usd'].sum().nlargest(top_n), which
\* plot_barh draws after data.sort_values().
TopBySumApp1(df, key, top_n) ==
  IF key \in df.cols
    THEN LET top == NLargest(GroupBySum(df, key, "funding_total_usd"), top_n)
         IN PlotBarh(top, SortValues(top))
    ELSE KeyError

App1ActiveMarkets(df, top_n) ==
  IF {"primary_category", "name"} \subseteq df.cols
    THEN LET m == NLargest(GroupByNUnique(df, "primary_category", "name"), top_n)
         IN PlotBarh(m, SortValues(m))
    ELSE KeyError

\* tab6: if df2.empty: st.warning(...) else the coefficient and the chart.
App1FundingVsRounds(df) ==
  IF Len(FundedRows(df)) = 0 THEN Warning ELSE CorrChart(FundedRows(df))

\* What each block of app1.main computes, in the order the script runs them.
App1Blocks ==
  <<"Overview", "Top Funded Companies", "Funding by Country", "Active Markets",
    "Funding Trends", "Startup Status", "Rounds vs Funding">>

App1Block(b, df, top_n) ==
  CASE b = "Overview" -> App1Overview(df)
    [] b = "Top Funded Companies" -> TopBySumApp1(df, "name", top_n)
    [] b = "Funding by Country" -> TopBySumApp1(df, "country", top_n)
    [] b = "Active Markets" -> App1ActiveMarkets(df, top_n)
    [] b = "Funding Trends" -> FundingTrend(df)
    [] b = "Startup Status" -> StatusDistribution(df)
    [] OTHER -> App1FundingVsRounds(df)

\* The columns a block reads with df[col]; the numeric columns are always
\* there after app1.load_data, and 'status' is tested before it is read.
App1Reads(b) ==
  CASE b \in {"Overview", "Top Funded Companies"} -> {"name"}
    [] b = "Funding by Country" -> {"country"}
    [] b = "Active Markets" -> {"primary_category", "name"}
    [] OTHER -> {}

\* The column a tab groups by before plot_barh draws the groups.
App1GroupKey(b) ==
  CASE b = "Top Funded Companies" -> "name"
    [] b = "Funding by Country" -> "country"
    [] OTHER -> "primary_category"

\* A block raises: it reads a column that is not there, or hands plot_barh
\* a Series of no group (top_n is 5 or more, so nlargest drops no group when
\* there is just one).
App1Raises(b, df) ==
  \/ ~(App1Reads(b) \subseteq df.cols)
  \/ /\ b \in {"Top Funded Companies", "Funding by Country", "Active Markets"}
     /\ GroupKeys(df.rows, App1GroupKey(b)) = {}

\* The blocks run top to bottom; an exception in one ends the script, and
\* the blocks below it do not run.
App1Views(df, top_n) ==
  LET pos(b) == CHOOSE i \in 1..Len(App1Blocks) : App1Blocks[i] = b
  IN [b \in SectionSet |->
        IF b \notin {App1Blocks[i] : i \in 1..Len(App1Blocks)} THEN NotRun
        ELSE IF \E j \in 1..(pos(b) - 1) : App1Raises(App1Blocks[j], df)
          THEN NotRun
        ELSE App1Block(b, df, top_n)]

NoViews == [b \in SectionSet |-> NotRun]

\* -------------------------------------------------------------- state
VARIABLES
  app,      \* which script runs: "SIAapp" or "app1"
  fs,       \* the file system: path -> Absent, Garbled or a table
  cache,    \* st.cache_data of load_data: path -> returned value, or NoEntry
  parses,   \* path -> number of times pd.read_csv read the file at the path
  first,    \* path -> what the first load_data(path) request gave, or NoEntry
  probed,   \* last run: the paths given to os.path.exists, in order
  loadArg,  \* last run: the path given to load_data ("" when none)
  topn,     \* the N of the last ranking: the slider value of the run, or the n
            \* of a direct call (0 when no slider was shown)
  readNow,  \* last run: the paths whose file pd.read_csv read
  df,       \* last run: what main got from the loader
  outcome,  \* last run: "idle", "ok", "load_failed" or "exception"
  views     \* last run: section -> what the view left

vars ==
  <<app, fs, cache, parses, first, probed, loadArg, topn, readNow, df, outcome, views>>

\* try_load_data without its return inside the loop: the last path that
\* exists wins.
LastExisting(files, paths) ==
  IF \E i \in 1..Len(paths) : Exists(files, paths[i])
    THEN CHOOSE i \in 1..Len(paths) :
           Exists(files, paths[i]) /\ \A j \in (i + 1)..Len(paths) : ~Exists(files, paths[j])
    ELSE 0

\* The index in paths of the first path that exists, 0 when none does: the
\* loop of try_load_data.
FirstExisting(files, paths) ==
  IF \E i \in 1..Len(paths) : Exists(files, paths[i])
    THEN CHOOSE i \in 1..Len(paths) :
           Exists(files, paths[i]) /\ \A j \in 1..(i - 1) : ~Exists(files, paths[j])
    ELSE 0

\* load_data(path) under @st.cache_data: a value returned once is returned
\* again for the same path without running the body; an exception is not
\* stored.
CacheHit(c, p) == c[p] # NoEntry

CachedLoad(a, c, files, p) == IF CacheHit(c, p) THEN c[p] ELSE load_data(a, files[p])

\* The cache after load_data(p) gave r.
CacheAfter(c, p, r) ==
  IF CacheHit(c, p) \/ r = Raised THEN c ELSE [c EXCEPT ![p] = r]

\* One load_data(p) request: what main gets, and the bookkeeping.
Load(p) ==
  LET ran == ~CacheHit(cache, p)
      read == ran /\ Exists(fs, p)
  IN /\ df' = CachedLoad(app, cache, fs, p)
     /\ cache' = CacheAfter(cache, p, df')
     /\ parses' = IF read THEN [parses EXCEPT ![p] = @ + 1] ELSE parses
     /\ readNow' = IF read THEN {p} ELSE {}
     /\ first' = IF first[p] = NoEntry THEN [first EXCEPT ![p] = df'] ELSE first

CanRun == \A p \in AllPaths : parses[p] < MaxParses

\* The sections of SIAapp.main that show a slider (lines 170, 173, 176).
RankedSections == {"Top Funded Companies", "Funding by Country", "Active Markets"}

\* SIAapp.main with the sidebar choice and, where the section shows a
\* slider, the slider value n.
SIAMain(choice, n) ==
  /\ app = "SIAapp"
  /\ CanRun
  /\ LET idx == FirstExisting(fs, possible_paths)
     IN IF idx = 0
          THEN \* try_load_data: st.warning, return None
               /\ probed' = possible_paths
               /\ loadArg' = ""
               /\ readNow' = {}
               /\ df' = NoneVal
               /\ outcome' = "load_failed"
               /\ views' = NoViews
               /\ topn' = 0
               /\ UNCHANGED <<cache, parses, first>>
          ELSE /\ probed' = SubSeq(possible_paths, 1, idx)
               /\ loadArg' = possible_paths[idx]
               /\ Load(possible_paths[idx])
               /\ IF df' = NoneVal \/ IsEmpty(df')
                    THEN \* st.error("Failed to load data."), return
                         /\ outcome' = "load_failed"
                         /\ views' = NoViews
                         /\ topn' = 0
                    ELSE \* st.sidebar.radio, and st.slider in a ranked branch
                         /\ topn' = IF choice \in RankedSections THEN n ELSE 0
                         /\ views' = [NoViews EXCEPT ![choice] = SIAView(choice, df', n)]
                         /\ outcome' = IF Raises(views'[choice]) THEN "exception" ELSE "ok"
  /\ UNCHANGED <<app, fs>>

\* app1.main with the slider value top_n.
App1Main(top_n) ==
  /\ app = "app1"
  /\ CanRun
  /\ probed' = <<>>
  /\ loadArg' = CLEANED_DATA_PATH
  /\ Load(CLEANED_DATA_PATH)
  /\ IF df' = Raised
       THEN \* the exception of load_data ends the script
            /\ outcome' = "exception"
            /\ views' = NoViews
            /\ topn' = 0
       ELSE IF IsEmpty(df')
         THEN \* st.error("No data loaded."), return
              /\ outcome' = "load_failed"
              /\ views' = NoViews
              /\ topn' = 0
         ELSE \* st.sidebar.slider, then the blocks
              /\ topn' = top_n
              /\ views' = App1Views(df', top_n)
              /\ outcome' = IF \E b \in SectionSet : Raises(views'[b])
                              THEN "exception" ELSE "ok"
  /\ UNCHANGED <<app, fs>>

\* show_top_companies(df, n) or show_funding_by_country(df, n) of SIAapp
\* called with the dataset the last run loaded and an n of the caller.
ShowRanking(choice, n) ==
  /\ app = "SIAapp"
  /\ df.kind = "df"
  /\ choice \in {"Top Funded Companies", "Funding by Country"}
  /\ topn' = n
  /\ views' = [NoViews EXCEPT ![choice] = SIAView(choice, df, n)]
  /\ outcome' = IF Raises(views'[choice]) THEN "exception" ELSE "ok"
  /\ UNCHANGED <<app, fs, cache, parses, first, probed, loadArg, readNow, df>>

\* The environment replaces, creates or deletes the file at a candidate path.
Touch(p, f) ==
  /\ p \in {CandidatePaths(app)[i] : i \in 1..Len(CandidatePaths(app))}
  /\ f # fs[p]
  /\ fs' = [fs EXCEPT ![p] = f]
  /\ UNCHANGED <<app, cache, parses, first, probed, loadArg, topn, readNow, df, outcome, views>>

\* ------------------------------------------------------------- inputs
Row(name, country, status, funding, rounds, year) ==
  [c \in Columns |->
     CASE c = "name" -> name
       [] c = "country" -> country
       [] c = "primary_category" -> TextCell("Tech")
       [] c = "status" -> status
       [] c = "funding_total_usd" -> funding
       [] c = "funding_rounds" -> rounds
       [] OTHER -> year]

\* A row cut to the columns of a table.
Restrict(row, cols) == [c \in cols |-> row[c]]

RECURSIVE SeqsUpTo(_, _)
\* The sequences over S of length at most n.
SeqsUpTo(S, n) ==
  IF n = 0 THEN {<<>>}
  ELSE SeqsUpTo(S, n - 1) \cup
         {Append(q, x) : q \in {t \in SeqsUpTo(S, n - 1) : Len(t) = n - 1}, x \in S}

TablesOver(colSets, rowPool, maxRows) ==
  {Table(cols, [i \in 1..Len(q) |-> Restrict(q[i], cols)]) :
     cols \in colSets, q \in SeqsUpTo(rowPool, maxRows)}

RowA == Row(TextCell("Acme"), TextCell("USA"), TextCell("operating"),
            Whole(100), Whole(1), Whole(2005))
RowB == Row(TextCell("Beta"), TextCell("CAN"), TextCell("closed"),
            Whole(200), Whole(2), Whole(2006))

\* The files of the loader specification: unparseable, header only, and two
\* different one-row tables.
LoaderFiles ==
  {Absent, Garbled, Table(Columns, <<>>), Table(Columns, <<RowA>>), Table(Columns, <<RowB>>)}

Idle ==
  /\ cache = [p \in AllPaths |-> NoEntry]
  /\ parses = [p \in AllPaths |-> 0]
  /\ first = [p \in AllPaths |-> NoEntry]
  /\ probed = <<>>
  /\ loadArg = ""
  /\ topn = 0
  /\ readNow = {}
  /\ df = NoneVal
  /\ outcome = "idle"
  /\ views = NoViews

\* Any files at the script's candidate paths.
Init ==
  /\ app \in Apps
  /\ fs \in [AllPaths -> LoaderFiles]
  /\ \A p \in AllPaths :
       p \notin {CandidatePaths(app)[i] : i \in 1..Len(CandidatePaths(app))} => fs[p] = Absent
  /\ Idle

\* The slider values tried: the ends of the slider's range and its default.
SliderSIA == {SliderMin, TOP_N, SliderMaxSIA}
SliderApp1 == {SliderMin, TOP_N_DEFAULT, SliderMaxApp1}

Next ==
  \/ \E p \in AllPaths, f \in LoaderFiles : Touch(p, f)
  \/ \E choice \in SectionSet, n \in SliderSIA : SIAMain(choice, n)
  \/ \E top_n \in SliderApp1 : App1Main(top_n)

Spec == Init /\ [][Next]_vars

\* One table at the script's first candidate path, nothing elsewhere.
InitTable(tables) ==
  /\ app \in Apps
  /\ \E t \in tables :
       fs = [p \in AllPaths |-> IF p = CandidatePaths(app)[1] THEN t ELSE Absent]
  /\ Idle

\* The scripts run with one of the given sections chosen.
NextViews(choices) ==
  \/ \E choice \in choices, n \in SliderSIA : SIAMain(choice, n)
  \/ \E top_n \in SliderApp1 : App1Main(top_n)

\* ---------------------------------------------- input families of the views
TopRow(nm, co, fu) == Row(nm, co, TextCell("operating"), fu, Whole(1), Whole(2005))

\* Rankings: two companies with two amounts each, in one country or
\* another, a row of no country and a row of no name.
TopRows ==
  {TopRow(TextCell("Acme"), TextCell("CAN"), Whole(50)),
   TopRow(TextCell("Acme"), TextCell("USA"), Whole(100)),
   TopRow(TextCell("Beta"), TextCell("CAN"), Whole(50)),
   TopRow(TextCell("Beta"), TextCell("USA"), Whole(200)),
   TopRow(TextCell("Beta"), EmptyCell, Whole(50)),
   TopRow(EmptyCell, TextCell("USA"), Whole(200))}

\* Four more companies in four more countries: with Acme and Beta after
\* them a table has six groups, one more than the slider's minimum.
WideRows ==
  <<TopRow(TextCell("Gamma"), TextCell("DEU"), Whole(50)),
    TopRow(TextCell("Delta"), TextCell("FRA"), Whole(125)),
    TopRow(TextCell("Epsilon"), TextCell("GBR"), Whole(250)),
    TopRow(TextCell("Zeta"), TextCell("IND"), Whole(400))>>

\* The tables of up to MaxRows rows, and the tables that start with
\* WideRows and go on with fewer than MaxRows rows.
TopTables ==
  TablesOver({Columns}, TopRows, MaxRows)
    \cup {Table(Columns, WideRows \o q) : q \in SeqsUpTo(TopRows, MaxRows - 1)}

InitTop == InitTable(TopTables)

\* The scripts run with a ranking chosen, and the two ranking functions of
\* SIAapp are called with an n of 1..MaxN.
NextTop ==
  \/ NextViews({"Top Funded Companies", "Funding by Country"})
  \/ \E choice \in {"Top Funded Companies", "Funding by Country"}, n \in 1..MaxN :
       ShowRanking(choice, n)

SpecTop == InitTop /\ [][NextTop]_vars

TrendRow(fu, yr) ==
  Row(TextCell("Acme"), TextCell("USA"), TextCell("operating"), fu, Whole(1), yr)

\* Trend: years missing, at the floor, at the floor plus a fraction, just
\* above the floor and well above it; an amount that does not parse.
TrendRows ==
  {TrendRow(Whole(50), yr) :
     yr \in {EmptyCell, Whole(YearFloor), Frac(YearFloor), Whole(YearFloor + 1),
             Whole(2005)}}
  \cup {TrendRow(TextCell("N/A"), Whole(2005)), TrendRow(Whole(100), Frac(2005))}

InitTrend == InitTable(TablesOver({Columns}, TrendRows, MaxRows))

SpecTrend == InitTrend /\ [][NextViews({"Funding Trends"})]_vars

\* Status: the column present or not, its cells empty, the text N/A (read
\* as NaN) or one of two values.
StatusRows ==
  {Row(TextCell("Acme"), TextCell("USA"), st, Whole(50), Whole(1), Whole(2005)) :
     st \in {EmptyCell, TextCell("N/A"), TextCell("operating"), TextCell("closed")}}

InitStatus ==
  InitTable(TablesOver({Columns, Columns \ {"status"}}, StatusRows, MaxRows))

SpecStatus == InitStatus /\ [][NextViews({"Startup Status"})]_vars

\* Correlation: rounds and amounts that pass or fail the > 0 filter.
CorrRows ==
  {Row(TextCell("Acme"), TextCell("USA"), TextCell("operating"), fu, ro, Whole(2005)) :
     fu \in {TextCell("N/A"), Whole(50), Whole(100)},
     ro \in {Whole(0), Whole(1), Whole(2)}}

InitCorr == InitTable(TablesOver({Columns}, CorrRows, MaxRows))

SpecCorr == InitCorr /\ [][NextViews({"Rounds vs Funding"})]_vars

\* Normaliser: every kind of cell in each numeric column, and every subset
\* of the numeric columns present.
RawCells ==
  {EmptyCell, TextCell("N/A"), TextCell("-"), Whole(3), Frac(2), NumCell(0 - (Scale + 1)),
   InfCell}

RawRows ==
  {Row(TextCell("Acme"), TextCell("USA"), TextCell("operating"), fu, ro, yr) :
     fu \in RawCells, ro \in RawCells, yr \in RawCells}

InitNorm ==
  InitTable(TablesOver({StringCols \cup S : S \in SUBSET NumericColNames},
                       RawRows, MaxRawRows))

SpecNorm == InitNorm /\ [][NextViews(SectionSet)]_vars

\* ==================================================================
\* Claims
\* ==================================================================
Min(a, b) == IF a < b THEN a ELSE b

\* The table the view specifications put at the first candidate path.
RawTable == fs[CandidatePaths(app)[1]]

RECURSIVE AmountWhere(_, _, _)
\* The funding of the rows of a DataFrame whose column key holds g, added up
\* row by row.
AmountWhere(rows, key, g) ==
  IF Len(rows) = 0 THEN 0
  ELSE (IF Head(rows)[key] = g THEN Head(rows)["funding_total_usd"].v ELSE 0)
         + AmountWhere(Tail(rows), key, g)

RECURSIVE AmountAll(_)
AmountAll(rows) ==
  IF Len(rows) = 0 THEN 0
  ELSE Head(rows)["funding_total_usd"].v + AmountAll(Tail(rows))

RECURSIVE ValTotal(_)
ValTotal(items) == IF Len(items) = 0 THEN 0 ELSE Head(items).val.v + ValTotal(Tail(items))

Ascending(items) ==
  \A i \in 1..(Len(items) - 1) : items[i].val.v <= items[i + 1].val.v

Descending(items) ==
  \A i \in 1..(Len(items) - 1) : items[i].val.v >= items[i + 1].val.v

\* ------------------------------------------------------------------ C1
\* C1: in every run the candidates are probed in list order up to the first
\* one that exists; load_data is given exactly that one; the only file read
\* is that one (no later candidate, no candidate that does not exist); and
\* with no cached entry the dataset has the rows of that file.
C1_Resolution ==
  [][fs' = fs =>
       LET L == CandidatePaths(app)
           firsts == {i \in 1..Len(L) :
                        /\ fs[L[i]].kind # "absent"
                        /\ \A j \in 1..(i - 1) : fs[L[j]].kind = "absent"}
       IN /\ Len(probed') <= Len(L)
          /\ \A i \in 1..Len(probed') : probed'[i] = L[i]
          /\ \A i \in 1..(Len(probed') - 1) : fs[probed'[i]].kind = "absent"
          /\ \A i \in firsts :
               /\ loadArg' = L[i]
               /\ app = "SIAapp" => Len(probed') = i
               /\ (cache[L[i]].kind = "noentry" /\ df'.kind = "df") =>
                    /\ readNow' = {L[i]}
                    /\ Len(df'.rows) = Len(fs[L[i]].rows)
                    /\ \A k \in 1..Len(df'.rows) :
                         df'.rows[k]["name"].s = fs[L[i]].rows[k]["name"].s
          /\ (firsts = {} /\ app = "SIAapp") =>
               loadArg' = "" /\ probed' = L /\ df'.kind = "none"
          /\ \A p \in readNow' : \E i \in firsts : p = L[i]
          /\ \A p \in AllPaths : parses'[p] # parses[p] => p \in readNow'
  ]_vars

\* With [P1, P2] and only P2 there, both were probed and P2 was read and
\* gave the dataset.
C1_Witness ==
  /\ probed = possible_paths
  /\ loadArg = ALTERNATE_DATA_PATH
  /\ readNow = {ALTERNATE_DATA_PATH}
  /\ parses[DEFAULT_DATA_PATH] = 0
  /\ df.kind = "df"

\* ------------------------------------------------------------------ C2
\* C2: a load that fails gives "no dataset" and never an exception, and a
\* run without a dataset computes no view.
C2_Claim ==
  /\ df.kind # "raised"
  /\ df.kind # "df" => \A b \in SectionSet : views[b].kind = "notrun"

\* ------------------------------------------------------------------ C3
\* C3: a path is read and parsed at most once, and once a request for a path
\* has given a dataset every later request for it gives the same dataset.
C3_Claim ==
  \A p \in AllPaths :
    /\ parses[p] <= 1
    /\ (loadArg = p /\ first[p].kind = "df") => df = first[p]

\* ------------------------------------------------------------------ C4
\* C4: every table loads; the dataset has the rows of the table; a cell of a
\* numeric field that is missing or no number is 0, a cell that is a number
\* keeps its value; and the company of a zeroed row is in the ranking.
C4_Claim ==
  (app = "SIAapp" /\ outcome # "idle") =>
    /\ df.kind = "df"
    /\ Len(df.rows) = Len(RawTable.rows)
    /\ \A i \in 1..Len(df.rows) : \A c \in NumericColNames \cap RawTable.cols :
         /\ RawTable.rows[i][c].k \in {"empty", "text"} => df.rows[i][c] = Num(0)
         /\ RawTable.rows[i][c].k = "num" => df.rows[i][c] = Num(RawTable.rows[i][c].v)
    /\ views["Top Funded Companies"].kind = "series" =>
         \A i \in 1..Min(Len(df.rows), topn) :
           \E j \in 1..Len(views["Top Funded Companies"].items) :
             views["Top Funded Companies"].items[j].key = df.rows[i]["name"]

\* ------------------------------------------------------------------ C5
\* What C5 says of every ranking by summed funding: min(N, groups) entries,
\* each a group with its exact sum, no group left out that has more than one
\* taken, and the entries in order of their sums.  It is said of the ranking
\* the view computed, whether or not the chart of it could be drawn.
TopEntities(sec, key, ordered(_)) ==
  LET v == views[sec]
      G == {df.rows[i][key] : i \in 1..Len(df.rows)} \ {NaN}
      keys == {v.items[i].key : i \in 1..Len(v.items)}
  IN v.kind \in {"series", "indexerror"} =>
       /\ Len(v.items) = Min(topn, Cardinality(G))
       /\ Cardinality(keys) = Len(v.items)
       /\ keys \subseteq G
       /\ \A i \in 1..Len(v.items) :
            v.items[i].val = Num(AmountWhere(df.rows, key, v.items[i].key))
       /\ \A g \in G \ keys : \A i \in 1..Len(v.items) :
            AmountWhere(df.rows, key, g) <= v.items[i].val.v
       /\ ordered(v.items)
       /\ Ascending(v.plotted)
       /\ {v.plotted[i] : i \in 1..Len(v.plotted)} = {v.items[i] : i \in 1..Len(v.items)}
       /\ Len(v.plotted) = Len(v.items)

\* Scenario A: (Acme, 100), (Acme, 50), (Beta, 200), ranked by name, N = 2
\* or more (the sliders start at 5).
ScenarioA ==
  /\ df.kind = "df"
  /\ Len(df.rows) = 3
  /\ topn >= 2
  /\ <<df.rows[1]["name"], df.rows[2]["name"], df.rows[3]["name"]>>
       = <<Str("Acme"), Str("Acme"), Str("Beta")>>
  /\ <<df.rows[1]["funding_total_usd"], df.rows[2]["funding_total_usd"],
       df.rows[3]["funding_total_usd"]>>
       = <<Num(100 * Scale), Num(50 * Scale), Num(200 * Scale)>>
  /\ views["Top Funded Companies"].kind = "series"

BetaFirst == <<Entry(Str("Beta"), Num(200 * Scale)), Entry(Str("Acme"), Num(150 * Scale))>>
AcmeFirst == <<Entry(Str("Acme"), Num(150 * Scale)), Entry(Str("Beta"), Num(200 * Scale))>>

\* C5 as amended: the ranking is displayed ascending by summed funding
\* (SIAapp sorts its result ascending; app1 ranks descending and sorts
\* ascending to draw), and in scenario A what is displayed is
\* [("Acme",150), ("Beta",200)].
C5_TopEntities ==
  LET Ordered(items) == IF app = "SIAapp" THEN Ascending(items) ELSE Descending(items)
  IN /\ TopEntities("Top Funded Companies", "name", Ordered)
     /\ TopEntities("Funding by Country", "country", Ordered)
     /\ ScenarioA =>
          /\ views["Top Funded Companies"].items
               = (IF app = "SIAapp" THEN AcmeFirst ELSE BetaFirst)
          /\ views["Top Funded Companies"].plotted = AcmeFirst

\* C5 as stated: the ranking is sorted by summed funding, and in scenario A
\* it is [("Beta",200), ("Acme",150)].
C5_Claim ==
  LET Ordered(items) == Ascending(items) \/ Descending(items)
  IN /\ TopEntities("Top Funded Companies", "name", Ordered)
     /\ TopEntities("Funding by Country", "country", Ordered)
     /\ ScenarioA => views["Top Funded Companies"].items = BetaFirst

\* Scenario A ranked by a run of SIAapp.main and displayed.
C5_Witness ==
  /\ ScenarioA
  /\ app = "SIAapp"
  /\ topn \in SliderSIA
  /\ views["Top Funded Companies"].plotted = AcmeFirst

\* ------------------------------------------------------------------ C6
\* C6: with fewer than two rows of funding_rounds > 0 and
\* funding_total_usd > 0 the view reports insufficient data and no
\* coefficient.
C6_Claim ==
  LET v == views["Rounds vs Funding"]
      pass == {i \in 1..Len(df.rows) :
                 /\ df.rows[i]["funding_rounds"].k = "num"
                 /\ df.rows[i]["funding_rounds"].v > 0
                 /\ df.rows[i]["funding_total_usd"].k = "num"
                 /\ df.rows[i]["funding_total_usd"].v > 0}
  IN (v.kind # "notrun" /\ Cardinality(pass) < 2) => v.kind = "warning"

\* ------------------------------------------------------------------ C7
\* C7: rows without a country are one group of the by-country ranking, so
\* that with N no smaller than the number of rows the entries add up to the
\* funding of the whole dataset.
C7_Claim ==
  LET v == views["Funding by Country"]
  IN (v.kind = "series" /\ topn >= Len(df.rows)) =>
       ValTotal(v.items) = AmountAll(df.rows)

\* ------------------------------------------------------------------ C8
\* C8: the trend holds no year <= 1980, holds every year > 1980 of the
\* dataset once with the sum of its rows' funding, ascending by year, and is
\* an empty series (no error) when the dataset has no year > 1980.
C8_FundingTrend ==
  LET v == views["Funding Trends"]
      years == {df.rows[i]["first_funding_year"].v : i \in 1..Len(df.rows)}
      late == {y \in years : y > YearFloor * Scale}
  IN v.kind # "notrun" =>
       /\ v.kind = "series"
       /\ Len(v.items) = Cardinality(late)
       /\ \A i \in 1..Len(v.items) :
            /\ v.items[i].key.k = "num"
            /\ v.items[i].key.v \in late
            /\ v.items[i].val
                 = Num(AmountWhere(df.rows, "first_funding_year", v.items[i].key))
       /\ \A i \in 1..(Len(v.items) - 1) : v.items[i].key.v < v.items[i + 1].key.v

\* A dataset with the sentinel year 0, a year at the floor and a year above
\* it: the trend holds the one year above.
C8_Witness ==
  /\ views["Funding Trends"].kind = "series"
  /\ Len(views["Funding Trends"].items) = 1
  /\ \E i \in 1..Len(df.rows) : df.rows[i]["first_funding_year"] = Num(0)
  /\ \E i \in 1..Len(df.rows) : df.rows[i]["first_funding_year"] = Num(YearFloor * Scale)
  /\ \E i \in 1..Len(df.rows) : df.rows[i]["first_funding_year"].v > YearFloor * Scale

\* ------------------------------------------------------------------ C9
\* C9: without a status column the view is the "unavailable" warning and no
\* counts; with the column, whatever its cells hold, the counts are
\* computed: one entry per distinct status with its number of rows.
C9_StatusDistribution ==
  LET v == views["Startup Status"]
      present == {df.rows[i]["status"] : i \in 1..Len(df.rows)} \ {NaN}
  IN v.kind # "notrun" =>
       IF "status" \in df.cols
         THEN /\ v.kind = "series"
              /\ {v.items[i].key : i \in 1..Len(v.items)} = present
              /\ Len(v.items) = Cardinality(present)
              /\ \A i \in 1..Len(v.items) :
                   v.items[i].val.v
                     = Scale * Cardinality({k \in 1..Len(df.rows) :
                                              df.rows[k]["status"] = v.items[i].key})
         ELSE v.kind = "warning" /\ v.items = <<>>

\* The column is there and every cell of it is empty: the counts are
\* computed (and are empty), not the warning.
C9_Witness ==
  /\ views["Startup Status"].kind = "series"
  /\ "status" \in df.cols
  /\ Len(df.rows) = 2
  /\ \A i \in 1..Len(df.rows) : df.rows[i]["status"] = NaN

\* ----------------------------------------------------------------- C10
\* C10: the dataset has exactly the columns of the source, and the columns
\* that are not configured hold what the source holds.
C10_Claim ==
  df.kind = "df" =>
    /\ df.cols = RawTable.cols
    /\ \A i \in 1..Len(df.rows) : \A c \in RawTable.cols \ NumericColNames :
         df.rows[i][c] = ParseCell(RawTable.rows[i][c])

====
